---- MODULE Spec2Model ----
(***************************************************************************)
(* Job lifecycle, cache eviction, temp-directory reaping and the Redis     *)
(* metadata store of mangadex-dl-wui (app/cache.py, app/cleanup.py,        *)
(* app/tasks.py, app/worker.py, app/downloader.py).                        *)
(*                                                                         *)
(* Library behaviour the model relies on (RQ, Redis):                      *)
(*  - Queue.jobs lists the jobs whose ids are in the queue list; a worker  *)
(*    pops the id when it starts the job, so a started job is not listed.  *)
(*  - a fetched Job object caches its status (_status); job.result is read *)
(*    from Redis when it is accessed and is None until the job finished.   *)
(*  - Job.fetch raises NoSuchJobError for an id without an entry.          *)
(*  - Job.cancel raises for a job that is already canceled and otherwise   *)
(*    sets the status to "canceled" and removes the id from the queue.     *)
(*  - enqueue gives the job the id str(uuid4()): five groups joined by "-".*)
(*  - hget / hset are each atomic; nothing makes the pair atomic.          *)
(***************************************************************************)
EXTENDS Integers, Sequences, FiniteSets, TLC

VARIABLES
    now,        \* time.time(), in abstract seconds
    store,      \* Redis hashes cache:manga:<series>
    call,       \* store_manga_metadata invocations in flight, per caller
    fs,         \* files under the cache root: path -> st_mtime, or Absent
    dirs,       \* directories that exist: the cache root <<>> and its subdirectories
    jobs,       \* RQ job hashes: id -> status, result, exc_info
    queue,      \* RQ queue list of job ids
    run,        \* perform_download_job executions, per job
    sweep,      \* the cleanup_cache pass in progress or last completed
    temp,       \* entries of Config.TEMP_DIR
    reap,       \* the last cleanup_temp_dirs pass (pass: parity of the number of passes)
    http,       \* the last response of POST /api/download
    loop,       \* run_cleanup_loop: the statement it is at
    config      \* app.config: the environment and what importing the module gave

vars == <<now, store, call, fs, dirs, jobs, queue, run, sweep, temp, reap, http, loop, config>>

reaper == <<temp, reap>>

registry == <<jobs, queue, run>>
cache == <<fs, dirs>>

----------------------------------------------------------------------------
(* Bounds *)

MaxTime == 2

----------------------------------------------------------------------------
(* Values *)

Range(s) == {s[i] : i \in 1..Len(s)}

\* str(uuid4()).split("-"): job ids as the sequence of their hyphen-separated groups
JobIds == { <<"a1", "b1", "c1", "d1", "e1">>, <<"a2", "b2", "c2", "d2", "e2">> }

Urls == {"url1", "url2"}

SeriesNames == {"SeriesA", "SeriesB"}

\* the {manga.title} directory the Fetcher writes the chapters (--save-as cbz)
\* of a url into
Title(url) == IF url = "url1" THEN "SeriesA" ELSE "SeriesB"

\* paths relative to the cache root, as sequences of components, in sorted order
AllPaths == << <<"SeriesA", "ch1.cbz">>, <<"SeriesA", "ch2.cbz">>, <<"SeriesA", "cover.jpg">>,
               <<"SeriesB", "ch1.cbz">>, <<"one.cbz">> >>

CachePaths == Range(AllPaths)

CacheDirs == { <<>>, <<"SeriesA">>, <<"SeriesA", "vol1">>, <<"SeriesB">> }

Parent(p) == SubSeq(p, 1, Len(p) - 1)

Basename(p) == p[Len(p)]

\* names that the glob "*.cbz" matches
CbzNames == {"ch1.cbz", "ch2.cbz", "one.cbz"}

Absent == -1

Present(p) == fs[p] # Absent

\* str(path) for a path under a cache root given in the form f; "abs" is the
\* resolved (absolute, symlink-free) form that Path.resolve() yields
PathStr(f, p) == <<f, p>>

Resolve(p) == PathStr("abs", p)

DirForms == {"abs", "rel"}

\* argument lists for the files parameter
FileLists == { <<>>, <<"ch1.cbz">>, <<"ch2.cbz">>, <<"ch1.cbz", "ch2.cbz">>,
               <<"ch1.cbz", "ch1.cbz">> }

\* what hget returns for a missing key or field
NoRaw == <<"none">>

----------------------------------------------------------------------------
(* app/cache.py *)

\* json.dumps of a list of strings
json_dumps(list) == <<"json", list>>

\* json.loads, with the except branch giving []
json_loads(raw) == IF raw[1] = "json" THEN raw[2] ELSE <<>>

\* list(dict.fromkeys(s)): drop later repeats, keep first occurrences in order
RECURSIVE DictFromKeys(_)
DictFromKeys(s) ==
    IF s = <<>> THEN <<>>
    ELSE LET init == DictFromKeys(SubSeq(s, 1, Len(s) - 1))
             last == s[Len(s)]
         IN  IF last \in Range(init) THEN init ELSE Append(init, last)

\* redis_conn.hget(key, "files")
HGetFiles(series) == IF series \in DOMAIN store THEN store[series].files ELSE NoRaw

\* the new list in place of the merged one
merged_files_replacing(existing_raw, files) == files

\* lines 42-49: the merged list computed from what hget returned
merged_files(existing_raw, files) ==
    IF existing_raw # NoRaw
    THEN DictFromKeys(json_loads(existing_raw) \o files)
    ELSE files

IdleCall == [pc |-> "idle"]

\* a caller enters store_manga_metadata with its arguments
store_manga_metadata_call(c, url, series, cache_path, files) ==
    /\ call[c].pc \in {"idle", "done"}
    /\ call' = [call EXCEPT ![c] = [pc |-> "hget", url |-> url, series |-> series,
                                    cache_path |-> cache_path, files |-> files]]
    /\ UNCHANGED <<now, config, http, loop, reaper, store, cache, registry, sweep>>

\* line 41: existing_raw = redis_conn.hget(key, "files"); lines 42-49
store_manga_metadata_hget(c) ==
    /\ call[c].pc = "hget"
    /\ call' = [call EXCEPT ![c] =
                  [pc |-> "hset", url |-> call[c].url, series |-> call[c].series,
                   cache_path |-> call[c].cache_path, files |-> call[c].files,
                   merged |-> merged_files(HGetFiles(call[c].series), call[c].files)]]
    /\ UNCHANGED <<now, config, http, loop, reaper, store, cache, registry, sweep>>

\* lines 51-61: redis_conn.hset(key, mapping=...)
store_manga_metadata_hset(c) ==
    /\ call[c].pc = "hset"
    /\ store' = [s \in DOMAIN store \cup {call[c].series} |->
                   IF s = call[c].series
                   THEN [url |-> call[c].url, name |-> call[c].series,
                         cache_path |-> call[c].cache_path, download_date |-> now,
                         files |-> json_dumps(call[c].merged)]
                   ELSE store[s]]
    /\ call' = [call EXCEPT ![c] =
                  [pc |-> "done", url |-> call[c].url, series |-> call[c].series,
                   cache_path |-> call[c].cache_path, files |-> call[c].files]]
    /\ UNCHANGED <<now, config, http, loop, reaper, cache, registry, sweep>>

\* names listed in the record of a series
StoredNames(series) ==
    IF series \in DOMAIN store THEN Range(json_loads(store[series].files)) ELSE {}

----------------------------------------------------------------------------
(* app/validators.py *)

\* the urls a request or a job may carry besides Urls
BadUrls == { "", "http://mangadex.org/title/id1", "https://example.com/title/id1",
             "https://mangadex.org/chapter/id1", "https://mangadex.org/title/",
             "https://mangadex.org/title/../admin" }

\* urllib.parse.urlparse: scheme, netloc and path (its segments after each "/")
urlparse(url) ==
    CASE url = "url1" ->
           [scheme |-> "https", netloc |-> "mangadex.org", path |-> <<"title", "id1">>]
      [] url = "url2" ->
           [scheme |-> "https", netloc |-> "MangaDex.org", path |-> <<"title", "id2", "slug">>]
      [] url = "http://mangadex.org/title/id1" ->
           [scheme |-> "http", netloc |-> "mangadex.org", path |-> <<"title", "id1">>]
      [] url = "https://example.com/title/id1" ->
           [scheme |-> "https", netloc |-> "example.com", path |-> <<"title", "id1">>]
      [] url = "https://mangadex.org/chapter/id1" ->
           [scheme |-> "https", netloc |-> "mangadex.org", path |-> <<"chapter", "id1">>]
      [] url = "https://mangadex.org/title/" ->
           [scheme |-> "https", netloc |-> "mangadex.org", path |-> <<"title", "">>]
      [] url = "https://mangadex.org/title/../admin" ->
           [scheme |-> "https", netloc |-> "mangadex.org", path |-> <<"title", "..", "admin">>]
      [] OTHER -> [scheme |-> "", netloc |-> "", path |-> <<url>>]

\* str.lower() of the host names above and of the series names of ListSeries
lower(s) ==
    CASE s = "MangaDex.org" -> "mangadex.org"
      [] s = "SeriesA" -> "seriesa"
      [] s = "Zeta" -> "zeta"
      [] OTHER -> s

\* path.startswith("/title/")
StartsWithTitle(path) == Len(path) >= 2 /\ path[1] = "title"

\* path[7:], as segments
title_id(path) == SubSeq(path, 2, Len(path))

\* is_valid_mangadex_url lines 16-44
is_valid_mangadex_url(url) ==
    /\ url # ""
    /\ urlparse(url).scheme = "https"
    /\ lower(urlparse(url).netloc) = "mangadex.org"
    /\ StartsWithTitle(urlparse(url).path)
    /\ title_id(urlparse(url).path) # <<"">>
    /\ ".." \notin Range(urlparse(url).path)

----------------------------------------------------------------------------
(* app/downloader.py *)

\* what job.result is before RQ has saved a return value
NoResult == <<"None">>

ListResult(list) == <<"list", list>>

\* scan_for_cbz as a set: the resolved path of every *.cbz file under the cache root
scan_for_cbz == {Resolve(p) : p \in {q \in CachePaths : Present(q) /\ Basename(q) \in CbzNames}}

\* sorted(paths) for a set of resolved path strings
Sorted(paths) == SelectSeq([i \in 1..Len(AllPaths) |-> Resolve(AllPaths[i])],
                           LAMBDA x : x \in paths)

\* lines 111-112: new_files = all_files - existing_files; sorted(new_files)
new_files(all_files, existing_files) == Sorted(all_files \ existing_files)

\* outcome: how the Fetcher ended ("" while it has not)
IdleRun == [pc |-> "idle", before |-> {}, written |-> {}, result |-> <<>>,
            todo |-> <<>>, exc |-> "", outcome |-> ""]

----------------------------------------------------------------------------
(* app/worker.py *)

RootName == "cache"

\* Path(fp).parent.name
SeriesDirName(fp) == IF Len(fp[2]) > 1 THEN fp[2][Len(fp[2]) - 1] ELSE RootName

\* str(Path(fp).parent)
ParentStr(fp) == PathStr(fp[1], Parent(fp[2]))

\* Path(fp).name
NameOf(fp) == Basename(fp[2])

\* lines 57-63: series_map, as the basenames grouped under one series name
GroupNames(file_paths, series_name) ==
    LET group == SelectSeq(file_paths, LAMBDA fp : SeriesDirName(fp) = series_name)
    IN  [i \in 1..Len(group) |-> NameOf(group[i])]

\* lines 71-77: cache_path, the parent of the first path whose name is in basenames
GroupCachePath(file_paths, basenames) ==
    LET hits == SelectSeq(file_paths, LAMBDA fp : NameOf(fp) \in Range(basenames))
    IN  IF hits = <<>> THEN ParentStr(file_paths[1]) ELSE ParentStr(hits[1])

\* the store_manga_metadata calls _store_metadata_for_result makes, in order
MetadataCalls(file_paths) ==
    LET series_names == DictFromKeys([i \in 1..Len(file_paths) |-> SeriesDirName(file_paths[i])])
    IN  [k \in 1..Len(series_names) |->
            [series |-> series_names[k],
             files |-> GroupNames(file_paths, series_names[k]),
             cache_path |-> GroupCachePath(file_paths,
                                           GroupNames(file_paths, series_names[k]))]]

----------------------------------------------------------------------------
(* app/tasks.py and the RQ worker *)

\* no request has been answered
NoResponse == [code |-> 0, body |-> "", task_id |-> <<>>]

NoJob == [status |-> "none", url |-> "", result |-> NoResult, exc_info |-> ""]

\* enqueue_download: queue.enqueue(...) creates the job hash under a fresh uuid4
\* and pushes the id on the queue list; j is the uuid4 drawn
enqueue_download(j, url) ==
    /\ jobs[j].status = "none"
    /\ jobs' = [jobs EXCEPT ![j] = [status |-> "queued", url |-> url,
                                    result |-> NoResult, exc_info |-> ""]]
    /\ queue' = Append(queue, j)
    /\ UNCHANGED <<now, config, http, loop, reaper, store, call, cache, run, sweep>>

\* a worker pops the head of the queue, marks it started and enters
\* perform_download_job -> download_manga up to the snapshot (lines 93-101)
perform_download_job_start(j) ==
    /\ queue # <<>> /\ Head(queue) = j
    /\ queue' = Tail(queue)
    /\ jobs' = [jobs EXCEPT ![j].status = "started"]
    /\ run' = [run EXCEPT ![j] =
                 IF ~is_valid_mangadex_url(jobs[j].url)
                 THEN [IdleRun EXCEPT !.pc = "raised", !.exc = "Invalid MangaDex URL"]
                 ELSE IF <<>> \notin dirs
                 THEN [IdleRun EXCEPT !.pc = "raised", !.exc = "Directory does not exist"]
                 ELSE [IdleRun EXCEPT !.pc = "fetcher", !.before = scan_for_cbz]]
    /\ UNCHANGED <<now, config, http, loop, reaper, store, call, cache, sweep>>

\* the Fetcher (mangadex-dl) puts one complete chapter file into its title directory;
\* chapters that are already there are skipped
mangadex_dl_write(j, p) ==
    /\ run[j].pc = "fetcher"
    /\ Len(p) = 2 /\ p[1] = Title(jobs[j].url)
    /\ Basename(p) \in CbzNames
    /\ ~Present(p)
    /\ fs' = [fs EXCEPT ![p] = now]
    /\ dirs' = dirs \cup {<<>>, Parent(p)}
    /\ run' = [run EXCEPT ![j].written = @ \cup {p}]
    /\ UNCHANGED <<now, config, http, loop, reaper, store, call, jobs, queue, sweep>>

\* run_mangadex_dl without timeout=: the call ends only when the Fetcher does
download_manga_exit_without_timeout(j, outcome) ==
    /\ outcome # "timeout"
    /\ run[j].pc = "fetcher"
    /\ run' = [run EXCEPT ![j] =
                 IF outcome = "ok"
                 THEN [@ EXCEPT !.pc = "fetched", !.outcome = outcome,
                                !.todo = MetadataCalls(new_files(scan_for_cbz, run[j].before)),
                                !.result = new_files(scan_for_cbz, run[j].before)]
                 ELSE [@ EXCEPT !.pc = "raised", !.exc = outcome, !.outcome = outcome]]
    /\ UNCHANGED <<now, config, http, loop, reaper, store, call, cache, jobs, queue, sweep>>

\* download_manga that does not look at the return code
download_manga_exit_unchecked(j, outcome) ==
    /\ run[j].pc = "fetcher"
    /\ run' = [run EXCEPT ![j] =
                 [@ EXCEPT !.pc = "fetched", !.outcome = outcome,
                           !.todo = MetadataCalls(new_files(scan_for_cbz, run[j].before)),
                           !.result = new_files(scan_for_cbz, run[j].before)]]
    /\ UNCHANGED <<now, config, http, loop, reaper, store, call, cache, jobs, queue, sweep>>

\* run_mangadex_dl returns or raises; download_manga lines 104-112;
\* perform_download_job lines 36-41
download_manga_exit(j, outcome) ==
    /\ run[j].pc = "fetcher"
    /\ run' = [run EXCEPT ![j] =
                 IF outcome = "ok"
                 THEN [@ EXCEPT !.pc = "fetched", !.outcome = outcome,
                                !.todo = MetadataCalls(new_files(scan_for_cbz, run[j].before)),
                                !.result = new_files(scan_for_cbz, run[j].before)]
                 ELSE [@ EXCEPT !.pc = "raised", !.exc = outcome, !.outcome = outcome]]
    /\ UNCHANGED <<now, config, http, loop, reaper, store, call, cache, jobs, queue, sweep>>


\* _store_metadata_for_result lines 69-84: the next store_manga_metadata call
store_metadata_for_result_call(j) ==
    /\ run[j].pc = "fetched"
    /\ run[j].todo # <<>>
    /\ call[j].pc \in {"idle", "done"}
    /\ call' = [call EXCEPT ![j] =
                  [pc |-> "hget", url |-> jobs[j].url,
                   series |-> Head(run[j].todo).series,
                   cache_path |-> Head(run[j].todo).cache_path,
                   files |-> Head(run[j].todo).files]]
    /\ run' = [run EXCEPT ![j].todo = Tail(@)]
    /\ UNCHANGED <<now, config, http, loop, reaper, store, cache, jobs, queue, sweep>>

\* store_manga_metadata raises (a Redis error on hget or hset): nothing in
\* _store_metadata_for_result or perform_download_job catches it
store_manga_metadata_raises(j) ==
    /\ run[j].pc = "fetched"
    /\ call[j].pc \in {"hget", "hset"}
    /\ run' = [run EXCEPT ![j] = [@ EXCEPT !.pc = "raised", !.exc = "RedisError", !.todo = <<>>]]
    /\ call' = [call EXCEPT ![j] = IdleCall]
    /\ UNCHANGED <<now, config, http, loop, reaper, store, cache, jobs, queue, sweep>>

\* which("mangadex-dl") finds nothing: run_mangadex_dl raises before the
\* Fetcher has run
run_mangadex_dl_not_found(j) ==
    /\ run[j].written = {}
    /\ download_manga_exit(j, "not_found")

\* perform_download_job that returns without storing the metadata
perform_download_job_return_before_store(j) ==
    /\ run[j].pc = "fetched"
    /\ jobs' = [jobs EXCEPT ![j].status = "finished",
                            ![j].result = ListResult(run[j].result)]
    /\ run' = [run EXCEPT ![j] = [IdleRun EXCEPT !.pc = "returned"]]
    /\ call' = [call EXCEPT ![j] = IdleCall]
    /\ UNCHANGED <<now, config, http, loop, reaper, store, cache, queue, sweep>>

\* perform_download_job returns; the RQ worker saves the return value and
\* sets the status to finished
perform_download_job_return(j) ==
    /\ run[j].pc = "fetched"
    /\ run[j].todo = <<>>
    /\ call[j].pc \in {"idle", "done"}
    /\ jobs' = [jobs EXCEPT ![j].status = "finished",
                            ![j].result = ListResult(run[j].result)]
    /\ run' = [run EXCEPT ![j] = [IdleRun EXCEPT !.pc = "returned"]]
    /\ call' = [call EXCEPT ![j] = IdleCall]
    /\ UNCHANGED <<now, config, http, loop, reaper, store, cache, queue, sweep>>

\* perform_download_job raised; the RQ worker records the failure
perform_download_job_raise(j) ==
    /\ run[j].pc = "raised"
    /\ jobs' = [jobs EXCEPT ![j].status = "failed", ![j].exc_info = run[j].exc]
    /\ run' = [run EXCEPT ![j] = [IdleRun EXCEPT !.pc = "returned"]]
    /\ UNCHANGED <<now, config, http, loop, reaper, store, call, cache, queue, sweep>>

\* Job.fetch(job_id): the job hash, or NoSuchJobError
Exists(job_id) == job_id \in JobIds /\ jobs[job_id].status # "none"

\* a cancel that leaves the id on the queue list
RemoveFromQueue_Kept(q, j) == q

RemoveFromQueue(q, j) == SelectSeq(q, LAMBDA x : x # j)

\* get_job_result without the test of the status
get_job_result_any_status(job_id) ==
    IF Exists(job_id)
    THEN jobs[job_id].result
    ELSE NoResult

\* get_job_result lines 94-115: the result of a finished job, otherwise None
get_job_result(job_id) ==
    IF Exists(job_id) /\ jobs[job_id].status = "finished"
    THEN jobs[job_id].result
    ELSE NoResult

\* cancel_job lines 128-147; fetch_ok = FALSE is Job.fetch raising
\* (missing entry or Redis error)
cancel_job(job_id, fetch_ok) ==
    /\ Exists(job_id)
    /\ IF fetch_ok /\ jobs[job_id].status # "canceled"
       THEN /\ jobs' = [jobs EXCEPT ![job_id].status = "canceled"]
            /\ queue' = RemoveFromQueue(queue, job_id)
       ELSE UNCHANGED <<jobs, queue>>
    /\ UNCHANGED <<now, config, http, loop, reaper, store, call, cache, run, sweep>>

\* get_job_status lines 58-82: None when Job.fetch raises (fetch_ok = FALSE is
\* a Redis error; a missing entry raises NoSuchJobError), otherwise the status,
\* with the error of a failed job that has one
NoStatus == [status |-> "None"]

\* get_job_status that reads the fields without Job.fetch having found the entry
get_job_status_unfetched(job_id, fetch_ok) ==
    IF jobs[job_id].status = "failed" /\ jobs[job_id].exc_info # ""
    THEN [status |-> "failed", error |-> jobs[job_id].exc_info]
    ELSE [status |-> jobs[job_id].status]

get_job_status(job_id, fetch_ok) ==
    IF ~(Exists(job_id) /\ fetch_ok)
    THEN NoStatus
    ELSE IF jobs[job_id].status = "failed" /\ jobs[job_id].exc_info # ""
         THEN [status |-> "failed", error |-> jobs[job_id].exc_info]
         ELSE [status |-> jobs[job_id].status]

\* the states whose job hash Redis expires: result_ttl=Config.TASK_TTL_SECONDS
\* (enqueue_download line 44) for a finished job, RQ's failure_ttl for a failed one
ExpiringStatuses == {"finished", "failed"}

\* Redis expires the job hash; the id is not drawn again (run[j] stays returned)
expire_job(j) ==
    /\ jobs[j].status \in ExpiringStatuses
    /\ run[j].pc = "returned"
    /\ jobs' = [jobs EXCEPT ![j] = NoJob]
    /\ UNCHANGED <<now, config, http, loop, reaper, store, call, cache, queue, run, sweep>>

----------------------------------------------------------------------------
(* app/routes.py *)

\* request bodies: json = FALSE is a body request.get_json() gives nothing for,
\* has_url = FALSE a JSON object without "url"
RequestBodies ==
    { [json |-> FALSE, has_url |-> FALSE, url |-> ""],
      [json |-> TRUE, has_url |-> FALSE, url |-> ""] }
    \cup { [json |-> TRUE, has_url |-> TRUE, url |-> u] : u \in Urls \cup BadUrls }

\* api_download that enqueues before it validates
api_download_enqueue_first(j, data) ==
    /\ jobs[j].status = "none" /\ run[j].pc = "idle"
    /\ jobs' = [jobs EXCEPT ![j] = [status |-> "queued", url |-> data.url,
                                    result |-> NoResult, exc_info |-> ""]]
    /\ queue' = Append(queue, j)
    /\ http' = IF data.json /\ data.has_url /\ is_valid_mangadex_url(data.url)
               THEN [code |-> 200, body |-> "", task_id |-> j]
               ELSE [code |-> 400, body |-> "Invalid MangaDex URL", task_id |-> <<>>]
    /\ UNCHANGED <<now, config, loop, reaper, store, call, cache, run, sweep>>

\* api_download lines 117-133; j is the uuid4 enqueue_download draws
api_download(j, data) ==
    /\ IF ~data.json
       THEN /\ http' = [code |-> 400, body |-> "Request body must be JSON", task_id |-> <<>>]
            /\ UNCHANGED <<jobs, queue>>
       ELSE IF ~data.has_url \/ data.url = ""
       THEN /\ http' = [code |-> 400, body |-> "Missing required field: url", task_id |-> <<>>]
            /\ UNCHANGED <<jobs, queue>>
       ELSE IF ~is_valid_mangadex_url(data.url)
       THEN /\ http' = [code |-> 400, body |-> "Invalid MangaDex URL", task_id |-> <<>>]
            /\ UNCHANGED <<jobs, queue>>
       ELSE /\ jobs[j].status = "none" /\ run[j].pc = "idle"
            /\ jobs' = [jobs EXCEPT ![j] = [status |-> "queued", url |-> data.url,
                                            result |-> NoResult, exc_info |-> ""]]
            /\ queue' = Append(queue, j)
            /\ http' = [code |-> 200, body |-> "", task_id |-> j]
    /\ UNCHANGED <<now, config, loop, reaper, store, call, cache, run, sweep>>

----------------------------------------------------------------------------
(* app/cache.py: list_cached_mangas, delete_manga_metadata *)

\* series names in mixed case
ListSeries == {"SeriesA", "alpha", "Zeta"}

\* ord() of the first character of the names above and of their lower()
ord(s) ==
    CASE s = "SeriesA" -> 83
      [] s = "Zeta" -> 90
      [] s = "alpha" -> 97
      [] s = "seriesa" -> 115
      [] s = "zeta" -> 122
      [] OTHER -> 0

\* a < b for str: these names differ in their first character
StrLess(a, b) == ord(a) < ord(b)

\* lines 78-93: the dict appended for the hash at key
ListEntry(key) ==
    [url |-> store[key].url, name |-> store[key].name, sanitized_name |-> "",
     cache_path |-> store[key].cache_path, download_date |-> store[key].download_date,
     files |-> json_loads(store[key].files)]

\* list.sort(key=...) of entries with distinct keys: the least first
RECURSIVE SortedBy(_, _)
SortedBy(entries, key) ==
    IF entries = {} THEN <<>>
    ELSE LET first == CHOOSE e \in entries :
                         \A o \in entries \ {e} : StrLess(key[e], key[o])
         IN  <<first>> \o SortedBy(entries \ {first}, key)

\* list_cached_mangas that sorts by the name as it is
list_cached_mangas_case_sensitive ==
    LET results == {ListEntry(key) : key \in DOMAIN store}
    IN  SortedBy(results, [e \in results |-> e.name])

\* list_cached_mangas lines 75-101
list_cached_mangas ==
    LET results == {ListEntry(key) : key \in DOMAIN store}
    IN  SortedBy(results, [e \in results |-> lower(e.name)])

\* delete_manga_metadata lines 145-146
delete_manga_metadata(series) ==
    /\ series \in DOMAIN store
    /\ store' = [s \in DOMAIN store \ {series} |-> store[s]]
    /\ UNCHANGED <<now, config, http, loop, reaper, call, cache, registry, sweep>>

----------------------------------------------------------------------------
(* app/cache.py: cleanup_stale_metadata *)

\* Path(cache_path, f).exists()
PathExists(cache_path, f) ==
    LET p == cache_path[2] \o <<f>>
    IN  \/ p \in CachePaths /\ Present(p)
        \/ p \in dirs

\* all() in place of any()
all_files_exist(entry) ==
    \A f \in Range(json_loads(entry.files)) : f # "" => PathExists(entry.cache_path, f)

\* line 177: any(Path(cache_path, f).exists() for f in files if f)
any_file_exists(entry) ==
    \E f \in Range(json_loads(entry.files)) : f # "" /\ PathExists(entry.cache_path, f)

\* only the records that list nothing
StaleKeys_EmptyOnly == {s \in DOMAIN store : json_loads(store[s].files) = <<>>}

\* the keys cleanup_stale_metadata deletes
StaleKeys == {s \in DOMAIN store : ~any_file_exists(store[s])}

\* the records that stay rewritten to list the files that are left
cleanup_stale_metadata_rewriting ==
    [s \in DOMAIN store \ StaleKeys |->
        [store[s] EXCEPT !.files =
            json_dumps(SelectSeq(json_loads(store[s].files),
                                 LAMBDA f : PathExists(store[s].cache_path, f)))]]

\* the store after cleanup_stale_metadata
cleanup_stale_metadata == [s \in DOMAIN store \ StaleKeys |-> store[s]]

\* line 183: the count cleanup_stale_metadata returns
stale_metadata_deleted == Cardinality(StaleKeys)

----------------------------------------------------------------------------
(* app/cleanup.py: get_active_job_files and cleanup_cache *)

TtlValues == {0, 1}

ActiveStatuses == {"queued", "started", "deferred"}

\* queue.jobs: the job objects of the ids in the queue list, each with the
\* status it had when it was fetched
QueueJobs == [i \in 1..Len(queue) |-> [id |-> queue[i], status |-> jobs[queue[i]].status]]

\* lines 42-44: what one job object contributes; job.result is read now
JobFiles(job) ==
    IF /\ job.status \in ActiveStatuses
       /\ jobs[job.id].result # NoResult
       /\ jobs[job.id].result[2] # <<>>
    THEN Range(jobs[job.id].result[2])
    ELSE {}

\* get_active_job_files lines 33-49, as the set cleanup_cache makes of it (line 95);
\* unreadable are the jobs for which the try block raises
get_active_job_files(snap, unreadable) ==
    UNION {JobFiles(snap[i]) : i \in {k \in 1..Len(snap) : snap[k].id \notin unreadable}}

\* the guard written so that it never holds for ttl = 0
TtlDisabled_Negative(ttl) == ttl < 0

\* line 91
TtlDisabled(ttl) == ttl = 0

\* the check without its second disjunct
Referenced_StrOnly(form, p, active_files) == PathStr(form, p) \in active_files

\* line 103: str(file_path) in active_files or str(file_path.resolve()) in active_files
Referenced(form, p, active_files) ==
    PathStr(form, p) \in active_files \/ Resolve(p) \in active_files

\* the comparison off by one
Expired_Inclusive(file_age, ttl) == file_age >= ttl

\* line 111
Expired(file_age, ttl) == file_age > ttl

\* glob in place of rglob: the top level only
CbzFiles_TopLevel == {p \in CachePaths : Present(p) /\ Basename(p) \in CbzNames /\ Len(p) = 1}

\* every archive name, whether or not the cache has the file
CbzFiles_Unlisted == {p \in CachePaths : Basename(p) \in CbzNames}

\* cache_path.rglob("*"): every file
CbzFiles_AnyFile == {p \in CachePaths : Present(p)}

\* cache_path.rglob("*.cbz")
CbzFiles == {p \in CachePaths : Present(p) /\ Basename(p) \in CbzNames}

\* the loop left after its first removal
Removable_OnePerPass(form, ttl, active_files, current_time, io_errors) ==
    LET found == {p \in CbzFiles : /\ ~Referenced(form, p, active_files)
                                   /\ p \notin io_errors
                                   /\ Expired(current_time - fs[p], ttl)}
    IN  IF found = {} THEN {} ELSE {CHOOSE p \in found : TRUE}

\* the loop without its try: the first error ends the pass
Removable_AbortOnError(form, ttl, active_files, current_time, io_errors) ==
    IF io_errors # {} THEN {}
    ELSE {p \in CbzFiles : /\ ~Referenced(form, p, active_files)
                            /\ Expired(current_time - fs[p], ttl)}

\* lines 101-119: the files the first pass removes when stat or remove raises
\* for the files in io_errors
Removable(form, ttl, active_files, current_time, io_errors) ==
    {p \in CbzFiles : /\ ~Referenced(form, p, active_files)
                      /\ p \notin io_errors
                      /\ Expired(current_time - fs[p], ttl)}

\* no call of cleanup_cache precedes the one in progress without a write between
NoPrev == [valid |-> FALSE, current_time |-> 0, active_files |-> {}, failed |-> {},
           removed_count |-> 0]

\* what the call that has just returned leaves for a call made right after it
\* with the same arguments, on a cache nothing was written to since: the
\* clock reading, active-reference set and failures of that call
PrevCall(form, ttl) ==
    IF /\ sweep.pc = "done" /\ sweep.form = form /\ sweep.ttl = ttl
       /\ sweep.ret_fs = fs
    THEN [valid |-> TRUE, current_time |-> sweep.current_time,
          active_files |-> sweep.active_files, failed |-> sweep.failed,
          removed_count |-> sweep.removed_count]
    ELSE NoPrev

\* cleanup_stale_metadata has not returned a count
NoCount == -1

\* hgetall of a key that is not there
EmptyHash == [url |-> "", name |-> "", cache_path |-> PathStr("abs", <<>>),
              download_date |-> 0, files |-> NoRaw]

\* no key in hand
NoEntry == [key |-> "", found |-> FALSE, value |-> EmptyHash]

\* pruned: the directories rmdir removed;
\* rmdir_failed: the directories rmdir raised for other than for not being empty;
\* stale_deleted: what cleanup_stale_metadata returned;
\* ret_fs: the files as they were when the call returned; prev: see PrevCall,
\* kept until the first pass is over
\* keys, entry: the keys of the scan cleanup_stale_metadata has still to visit
\* and what hgetall gave for the key in hand, when its steps are taken one by one
IdleSweep == [pc |-> "idle", form |-> "abs", ttl |-> 0, snap |-> <<>>, unreadable |-> {},
              active_files |-> {}, current_time |-> 0, deleted |-> {}, failed |-> {},
              removed_count |-> 0, pruned |-> {}, rmdir_failed |-> {},
              stale_deleted |-> NoCount,
              ret_fs |-> <<>>, prev |-> NoPrev,
              keys |-> {}, entry |-> NoEntry]

\* cleanup_cache lines 87-92, and queue.jobs of get_active_job_files (line 33)
cleanup_cache_start(form, ttl) ==
    /\ sweep.pc \in {"idle", "done"}
    /\ sweep' = IF <<>> \notin dirs \/ TtlDisabled(ttl)
                THEN [IdleSweep EXCEPT !.pc = "done", !.form = form, !.ttl = ttl,
                                       !.ret_fs = fs, !.prev = PrevCall(form, ttl)]
                ELSE [IdleSweep EXCEPT !.pc = "jobs", !.form = form, !.ttl = ttl,
                                       !.snap = QueueJobs, !.prev = PrevCall(form, ttl)]
    /\ UNCHANGED <<now, config, http, loop, reaper, store, call, cache, registry>>

\* get_active_job_files lines 33-49; cleanup_cache lines 95-98
cleanup_cache_active(unreadable) ==
    /\ sweep.pc = "jobs"
    /\ unreadable \subseteq {sweep.snap[i].id : i \in 1..Len(sweep.snap)}
    /\ sweep' = [sweep EXCEPT !.pc = "files", !.unreadable = unreadable, !.snap = <<>>,
                              !.active_files = get_active_job_files(sweep.snap, unreadable),
                              !.current_time = now]
    /\ UNCHANGED <<now, config, http, loop, reaper, store, call, cache, registry>>

\* cleanup_cache lines 100-119
cleanup_cache_files(io_errors) ==
    /\ sweep.pc = "files"
    /\ io_errors \subseteq Removable(sweep.form, sweep.ttl, sweep.active_files, sweep.current_time, {})
    /\ LET gone == Removable(sweep.form, sweep.ttl, sweep.active_files, sweep.current_time, io_errors)
       IN  /\ fs' = [p \in CachePaths |-> IF p \in gone THEN Absent ELSE fs[p]]
           /\ sweep' = [sweep EXCEPT !.pc = "dirs", !.deleted = gone,
                                     !.failed = io_errors, !.removed_count = Cardinality(gone)]
    /\ UNCHANGED <<now, config, http, loop, reaper, store, call, dirs, registry>>

\* rmdir succeeds on a directory that has no entry
IsEmptyDir(d, ds) ==
    /\ ~\E p \in CachePaths : Present(p) /\ Parent(p) = d
    /\ ~\E e \in ds : e # <<>> /\ Parent(e) = d

MaxDepth == 2

\* the directories visited without reverse=True, parents before their children
RemoveEmptyDirs_ShallowFirst(depth, ds, rmdir_errors) ==
    ds \ {d \in ds : /\ Len(d) \in 1..depth
                     /\ IsEmptyDir(d, ds)
                     /\ d \notin rmdir_errors}

\* lines 123-134: rmdir on every subdirectory, deepest first
RECURSIVE RemoveEmptyDirs(_, _, _)
RemoveEmptyDirs(depth, ds, rmdir_errors) ==
    IF depth = 0 THEN ds
    ELSE RemoveEmptyDirs(depth - 1,
                         ds \ {d \in ds : /\ Len(d) = depth
                                          /\ IsEmptyDir(d, ds)
                                          /\ d \notin rmdir_errors},
                         rmdir_errors)

\* cleanup_cache lines 121-134
cleanup_cache_dirs(rmdir_errors) ==
    /\ sweep.pc = "dirs"
    /\ rmdir_errors \subseteq dirs \ RemoveEmptyDirs(MaxDepth, dirs, {})
    /\ dirs' = RemoveEmptyDirs(MaxDepth, dirs, rmdir_errors)
    /\ sweep' = [sweep EXCEPT !.pc = "meta", !.rmdir_failed = rmdir_errors,
                              !.pruned = dirs \ RemoveEmptyDirs(MaxDepth, dirs, rmdir_errors),
                              !.prev = NoPrev]
    /\ UNCHANGED <<now, config, http, loop, reaper, store, call, fs, registry>>

\* cleanup_cache lines 136-140; redis_ok = FALSE is cleanup_stale_metadata raising.
\* The call returns removed_count; of its other locals the record keeps what
\* PrevCall reads
cleanup_cache_meta(redis_ok) ==
    /\ sweep.pc = "meta"
    /\ store' = IF redis_ok THEN cleanup_stale_metadata ELSE store
    /\ sweep' = [sweep EXCEPT !.pc = "done", !.ret_fs = fs,
                              !.unreadable = {}, !.deleted = {}, !.pruned = {},
                              !.rmdir_failed = {},
                              !.stale_deleted = IF redis_ok THEN stale_metadata_deleted
                                                ELSE NoCount]
    /\ UNCHANGED <<now, config, http, loop, reaper, call, cache, registry>>

\* cleanup_stale_metadata taken one Redis command at a time.
\* line 163: scan gives the keys (fewer than count=100: one batch)
cleanup_stale_metadata_scan ==
    /\ sweep.pc = "meta"
    /\ sweep' = [sweep EXCEPT !.pc = "reconcile", !.keys = DOMAIN store, !.stale_deleted = 0]
    /\ UNCHANGED <<now, config, http, loop, reaper, store, call, cache, registry>>

\* line 165: entry = redis_conn.hgetall(key)
cleanup_stale_metadata_hgetall(key) ==
    /\ sweep.pc = "reconcile"
    /\ sweep.entry.key = ""
    /\ key \in sweep.keys
    /\ sweep' = [sweep EXCEPT !.keys = @ \ {key},
                              !.entry = [key |-> key, found |-> key \in DOMAIN store,
                                         value |-> IF key \in DOMAIN store THEN store[key]
                                                   ELSE EmptyHash]]
    /\ UNCHANGED <<now, config, http, loop, reaper, store, call, cache, registry>>

\* lines 166-180: the entry read is empty, or none of its files exists: delete(key)
cleanup_stale_metadata_check ==
    /\ sweep.pc = "reconcile"
    /\ sweep.entry.key # ""
    /\ LET stale == ~sweep.entry.found \/ ~any_file_exists(sweep.entry.value)
       IN  /\ store' = IF stale THEN [s \in DOMAIN store \ {sweep.entry.key} |-> store[s]]
                       ELSE store
           /\ sweep' = [sweep EXCEPT !.entry = NoEntry,
                                     !.stale_deleted = IF stale THEN @ + 1 ELSE @]
    /\ UNCHANGED <<now, config, http, loop, reaper, call, cache, registry>>

\* lines 181-183 and cleanup_cache line 140
cleanup_stale_metadata_returned ==
    /\ sweep.pc = "reconcile"
    /\ sweep.entry.key = "" /\ sweep.keys = {}
    /\ sweep' = [sweep EXCEPT !.pc = "done", !.ret_fs = fs,
                              !.unreadable = {}, !.deleted = {}, !.pruned = {},
                              !.rmdir_failed = {}]
    /\ UNCHANGED <<now, config, http, loop, reaper, store, call, cache, registry>>

----------------------------------------------------------------------------
(* app/cleanup.py: is_job_completed and cleanup_temp_dirs *)

\* entries of the temp directory; a name is given as dir_name.split("-")
WorkspaceName(j) == <<"job", "dl">> \o j

TempEntries ==
    { [name |-> WorkspaceName(<<"a2", "b2", "c2", "d2", "e2">>), dir |-> TRUE],
      [name |-> <<"job", "completed", "123">>, dir |-> TRUE],
      [name |-> <<"job", "x">>, dir |-> TRUE],
      [name |-> <<"uploads">>, dir |-> TRUE],
      [name |-> <<"job", "dl", "123">>, dir |-> FALSE] }

\* the fallback written to keep a directory when the job cannot be fetched
is_job_completed_keep_on_error(job_id, redis_ok) ==
    Exists(job_id) /\ redis_ok /\ jobs[job_id].status \in {"finished", "failed"}

\* is_job_completed lines 61-72; Job.fetch raises for a missing entry and when
\* Redis cannot be reached (redis_ok = FALSE)
is_job_completed(job_id, redis_ok) ==
    IF Exists(job_id) /\ redis_ok
    THEN jobs[job_id].status \in {"finished", "failed"}
    ELSE TRUE

\* lines 157-170: the job id cleanup_temp_dirs takes from an entry, or none
ParsedJobId(e) ==
    IF e.dir /\ e.name[1] = "job" /\ Len(e.name) >= 2 /\ Len(e.name) >= 3
    THEN {<<e.name[Len(e.name)]>>}
    ELSE {}

\* the loop without its try: the first error ends the pass
rmtree_removed_abort_on_error(doomed, rmtree_errors) ==
    IF doomed \cap rmtree_errors # {} THEN {} ELSE doomed

\* lines 174-179: the directories rmtree removes, of those it is called for
rmtree_removed(doomed, rmtree_errors) == doomed \ rmtree_errors

\* cleanup_temp_dirs lines 149-181: one pass over the temp directory; rmtree
\* raises for the entries in rmtree_errors, redis_ok = FALSE is a pass during
\* which Redis cannot be reached
cleanup_temp_dirs(rmtree_errors, redis_ok) ==
    /\ rmtree_errors \subseteq temp
    /\ LET doomed == {e \in temp : \E id \in ParsedJobId(e) : is_job_completed(id, redis_ok)}
           gone == rmtree_removed(doomed, rmtree_errors)
       IN  /\ temp' = temp \ gone
           /\ reap' = [pass |-> 1 - reap.pass, deleted |-> gone,
                       failed |-> rmtree_errors \cap doomed, removed_count |-> Cardinality(gone)]
    /\ UNCHANGED <<now, config, http, loop, store, call, cache, registry, sweep>>

\* something creates an entry in the temp directory; the workspace of a job
\* is made while the job is queued or started
CreateTempEntry(e) ==
    /\ e \notin temp
    /\ \A j \in JobIds : e.name = WorkspaceName(j) => jobs[j].status \in {"queued", "started"}
    /\ temp' = temp \cup {e}
    /\ UNCHANGED <<now, config, http, loop, store, call, cache, registry, sweep, reap>>

----------------------------------------------------------------------------
(* app/cleanup.py: run_cleanup_loop *)

\* os.environ.get("CACHE_TTL_SECONDS"): unset, or the string it is set to
UnsetEnv == [set |-> FALSE, value |-> ""]

SetEnv(v) == [set |-> TRUE, value |-> v]

EnvValues == {UnsetEnv} \cup {SetEnv(v) : v \in {"0", "1", "-1", "abc"}}

\* config.py line 41: the default of CACHE_TTL_SECONDS
DEFAULT_CACHE_TTL_SECONDS == 604800

\* config.py line 13: min_value
min_value == 1

\* str(default)
str(n) == IF n = DEFAULT_CACHE_TTL_SECONDS THEN "604800" ELSE "1"

\* the strings int() takes
IntLiterals == {"0", "1", "-1", "604800"}

\* int(raw_value)
int(raw_value) ==
    CASE raw_value = "0" -> 0
      [] raw_value = "1" -> 1
      [] raw_value = "-1" -> 0 - 1
      [] raw_value = "604800" -> DEFAULT_CACHE_TTL_SECONDS

ValueError == [ok |-> FALSE, value |-> 0]

\* _get_positive_int_from_env lines 27-31
get_positive_int_from_env(env, default) ==
    LET raw_value == IF env.set THEN env.value ELSE str(default)
    IN  IF raw_value \notin IntLiterals THEN ValueError
        ELSE IF int(raw_value) < min_value THEN ValueError
        ELSE [ok |-> TRUE, value |-> int(raw_value)]

\* app.config before it is imported, in an environment env
UnloadedConfig(env) == [pc |-> "unloaded", env |-> env, CACHE_TTL_SECONDS |-> 0]

\* the class body of Config, line 41: the module is imported, or the import raises
LoadedConfig(env) ==
    LET r == get_positive_int_from_env(env, DEFAULT_CACHE_TTL_SECONDS)
    IN  IF r.ok
        THEN [pc |-> "loaded", env |-> env, CACHE_TTL_SECONDS |-> r.value]
        ELSE [pc |-> "ValueError", env |-> env, CACHE_TTL_SECONDS |-> 0]

import_config ==
    /\ config.pc = "unloaded"
    /\ config' = LoadedConfig(config.env)
    /\ UNCHANGED <<now, http, loop, reaper, store, call, cache, registry, sweep>>

\* Config.CACHE_TTL_SECONDS, in abstract seconds
CACHE_TTL_SECONDS == config.CACHE_TTL_SECONDS

\* line 190: the loop calls cleanup_cache; sweep.pc = "idle" is the call made
\* and not yet entered
run_cleanup_loop_cleanup_cache ==
    /\ config.pc = "loaded"
    /\ loop.pc = "cleanup_cache"
    /\ loop' = [loop EXCEPT !.pc = "in_cleanup_cache"]
    /\ sweep' = IdleSweep
    /\ UNCHANGED <<now, config, http, reaper, store, call, cache, registry>>

\* the steps of the cleanup_cache call the loop has made
run_cleanup_loop_sweep ==
    /\ loop.pc = "in_cleanup_cache"
    /\ \/ sweep.pc = "idle" /\ \E form \in DirForms : cleanup_cache_start(form, CACHE_TTL_SECONDS)
       \/ \E unreadable \in SUBSET JobIds : cleanup_cache_active(unreadable)
       \/ \E io_errors \in SUBSET CachePaths : cleanup_cache_files(io_errors)
       \/ \E rmdir_errors \in SUBSET CacheDirs : cleanup_cache_dirs(rmdir_errors)
       \/ \E redis_ok \in BOOLEAN : cleanup_cache_meta(redis_ok)

\* get_active_job_files lines 29-33: Redis cannot be reached and queue.jobs
\* raises, outside the try of lines 34-46; neither cleanup_cache (line 95) nor
\* run_cleanup_loop (lines 189-192) catches it, and the loop is left
get_active_job_files_raises(form) ==
    /\ loop.pc = "in_cleanup_cache"
    /\ sweep.pc = "idle"
    /\ <<>> \in dirs
    /\ sweep' = [IdleSweep EXCEPT !.pc = "raised", !.form = form, !.ttl = CACHE_TTL_SECONDS]
    /\ loop' = [loop EXCEPT !.pc = "raised"]
    /\ UNCHANGED <<now, config, http, reaper, store, call, cache, registry>>

\* line 190 returns; line 191 is next
run_cleanup_loop_cache_returned ==
    /\ loop.pc = "in_cleanup_cache"
    /\ sweep.pc = "done"
    /\ loop' = [pc |-> "cleanup_temp_dirs", pass |-> reap.pass]
    /\ UNCHANGED <<now, config, http, reaper, store, call, cache, registry, sweep>>

\* line 191: the cleanup_temp_dirs call of this period
run_cleanup_loop_cleanup_temp_dirs ==
    /\ loop.pc = "cleanup_temp_dirs"
    /\ loop.pass = reap.pass
    /\ \E rmtree_errors \in SUBSET TempEntries, redis_ok \in BOOLEAN :
          cleanup_temp_dirs(rmtree_errors, redis_ok)

\* line 191 returns; line 192 is next
run_cleanup_loop_temp_dirs_returned ==
    /\ loop.pc = "cleanup_temp_dirs"
    /\ loop.pass # reap.pass
    /\ loop' = [loop EXCEPT !.pc = "sleep"]
    /\ UNCHANGED <<now, config, http, reaper, store, call, cache, registry, sweep>>

\* line 192: time.sleep(60) returns and the next period begins
run_cleanup_loop_sleep ==
    /\ loop.pc = "sleep"
    /\ loop' = [loop EXCEPT !.pc = "cleanup_cache"]
    /\ now' = IF now < MaxTime THEN now + 1 ELSE now
    /\ UNCHANGED <<config, http, reaper, store, call, cache, registry, sweep>>

----------------------------------------------------------------------------
(* Environment *)

Tick ==
    /\ now < MaxTime
    /\ now' = now + 1
    /\ UNCHANGED <<config, http, loop, store, call, cache, registry, sweep, reaper>>

----------------------------------------------------------------------------
\* files left in the cache by earlier runs
InitialFiles == { <<"one.cbz">>, <<"SeriesA", "ch1.cbz">> }

\* the record an earlier job has stored for a file of a series directory
InitialRecord(p) ==
    [url |-> "url1", name |-> p[1], cache_path |-> PathStr("abs", Parent(p)),
     download_date |-> 0, files |-> json_dumps(<<Basename(p)>>)]

\* the directories above a path, the cache root included
Ancestors(p) == {SubSeq(p, 1, k) : k \in 0..(Len(p) - 1)}

\* the cache may have files of earlier runs, with or without their records
\* (the Redis database and the cache directory are separate volumes), and
\* directories without files; a cache without either may lack its root
InitWith(files, empty_dirs, configs) ==
    /\ now = 0
    /\ config \in configs
    /\ call = [c \in JobIds |-> IdleCall]
    /\ \E old \in SUBSET files, extra \in SUBSET empty_dirs :
          /\ fs = [p \in CachePaths |-> IF p \in old THEN 0 ELSE Absent]
          /\ dirs \in IF old = {} /\ extra = {} THEN { {}, {<<>>} }
                      ELSE { {<<>>} \cup UNION {Ancestors(p) : p \in old}
                                   \cup extra \cup UNION {Ancestors(d) : d \in extra} }
          /\ \E tracked \in SUBSET {p \in old : Len(p) = 2 /\ Basename(p) \in CbzNames} :
                store = [s \in {p[1] : p \in tracked} |->
                           InitialRecord(CHOOSE p \in tracked : p[1] = s)]
    /\ jobs = [j \in JobIds |-> NoJob]
    /\ queue = <<>>
    /\ run = [j \in JobIds |-> IdleRun]
    /\ sweep = IdleSweep
    /\ temp = {}
    /\ reap = [pass |-> 0, deleted |-> {}, failed |-> {}, removed_count |-> 0]
    /\ http = NoResponse
    /\ loop = [pc |-> "cleanup_cache", pass |-> 0]

\* app.config imported with CACHE_TTL_SECONDS=1 in the environment
InitCache(files, empty_dirs) == InitWith(files, empty_dirs, {LoadedConfig(SetEnv("1"))})

Init == InitCache(InitialFiles, {})

\* a cache that also has a file that is not an archive and directories
\* without files, one of them nested
OtherFiles == { <<"SeriesA", "cover.jpg">> }

EmptyDirs == { <<"SeriesA", "vol1">>, <<"SeriesB">> }

InitPrune == InitCache(InitialFiles \cup OtherFiles, EmptyDirs)

\* the url each direct caller passes
CallerUrl(c) == IF c = <<"a1", "b1", "c1", "d1", "e1">> THEN "url1" ELSE "url2"

\* direct, possibly concurrent callers of store_manga_metadata, all for one series
DirectCall ==
    \E c \in JobIds, files \in FileLists :
        store_manga_metadata_call(c, CallerUrl(c), "SeriesA", PathStr("abs", <<"SeriesA">>), files)

MergeStep == \E c \in JobIds : store_manga_metadata_hget(c) \/ store_manga_metadata_hset(c)

NextMerge == DirectCall \/ MergeStep

SpecMerge == Init /\ [][NextMerge]_vars

\* callers of store_manga_metadata that come one after the other
SequentialCall == (\A c \in JobIds : call[c].pc \in {"idle", "done"}) /\ DirectCall

NextSequential == SequentialCall \/ MergeStep

SpecSequential == Init /\ [][NextSequential]_vars

Worker(j) ==
    \/ perform_download_job_start(j)
    \/ \E p \in CachePaths : mangadex_dl_write(j, p)
    \/ \E outcome \in {"ok", "nonzero"} : download_manga_exit(j, outcome)
    \/ store_metadata_for_result_call(j)
    \/ store_manga_metadata_hget(j)
    \/ store_manga_metadata_hset(j)
    \/ perform_download_job_return(j)
    \/ perform_download_job_raise(j)

\* the job the sweep runs against
SweepJob == <<"a1", "b1", "c1", "d1", "e1">>

Sweep ==
    \/ \E form \in DirForms, ttl \in TtlValues : cleanup_cache_start(form, ttl)
    \/ \E unreadable \in SUBSET JobIds : cleanup_cache_active(unreadable)
    \/ \E io_errors \in SUBSET CachePaths : cleanup_cache_files(io_errors)
    \/ \E rmdir_errors \in SUBSET CacheDirs : cleanup_cache_dirs(rmdir_errors)
    \/ \E redis_ok \in BOOLEAN : cleanup_cache_meta(redis_ok)

NextSweep == enqueue_download(SweepJob, "url1") \/ Worker(SweepJob) \/ Sweep \/ Tick

SpecSweep == Init /\ [][NextSweep]_vars

NextPrune == Sweep \/ Tick

SpecPrune == InitPrune /\ [][NextPrune]_vars

Submit == \E j \in JobIds, url \in Urls : enqueue_download(j, url)

Cancel == \E j \in JobIds, fetch_ok \in BOOLEAN : cancel_job(j, fetch_ok)

NextJobs == Submit \/ (\E j \in JobIds : Worker(j)) \/ Cancel

SpecJobs == Init /\ [][NextJobs]_vars

Reaper ==
    \/ \E e \in TempEntries : CreateTempEntry(e)
    \/ \E rmtree_errors \in SUBSET TempEntries, redis_ok \in BOOLEAN :
          cleanup_temp_dirs(rmtree_errors, redis_ok)

\* the job whose workspace the reaper runs against
ReapJob == <<"a2", "b2", "c2", "d2", "e2">>

NextReap ==
    \/ enqueue_download(ReapJob, "url1")
    \/ Worker(ReapJob)
    \/ \E fetch_ok \in BOOLEAN : cancel_job(ReapJob, fetch_ok)
    \/ Reaper

SpecReap == Init /\ [][NextReap]_vars

\* a sweep whose cleanup_stale_metadata is taken one Redis command at a time,
\* with no failing file, directory or job
SweepStepwise ==
    \/ cleanup_cache_start("abs", CACHE_TTL_SECONDS)
    \/ cleanup_cache_active({})
    \/ cleanup_cache_files({})
    \/ cleanup_cache_dirs({})
    \/ cleanup_stale_metadata_scan
    \/ \E key \in SeriesNames : cleanup_stale_metadata_hgetall(key)
    \/ cleanup_stale_metadata_check
    \/ cleanup_stale_metadata_returned

NextReconcile ==
    \/ enqueue_download(SweepJob, "url1")
    \/ Worker(SweepJob)
    \/ SweepStepwise
    \/ Tick

SpecReconcile == Init /\ [][NextReconcile]_vars

\* the urls a job may be enqueued with: enqueue_download does not validate
JobUrls == Urls \cup {"http://mangadex.org/title/id1"}

\* two workers, every way the Fetcher step and the metadata write can fail
NextWorker ==
    \/ \E j \in JobIds, url \in JobUrls : enqueue_download(j, url)
    \/ \E j \in JobIds : Worker(j)
    \/ \E j \in JobIds : download_manga_exit(j, "timeout")
    \/ \E j \in JobIds : run_mangadex_dl_not_found(j)
    \/ \E j \in JobIds : store_manga_metadata_raises(j)

SpecWorker == Init /\ [][NextWorker]_vars

\* the caller that fills the store
ListCaller == <<"a1", "b1", "c1", "d1", "e1">>

ListCall ==
    \E series \in ListSeries, files \in FileLists :
        store_manga_metadata_call(ListCaller, "url1", series, PathStr("abs", <<series>>), files)

NextList ==
    \/ ListCall
    \/ store_manga_metadata_hget(ListCaller)
    \/ store_manga_metadata_hset(ListCaller)
    \/ \E series \in ListSeries : delete_manga_metadata(series)

SpecList == Init /\ [][NextList]_vars

\* a cache without files and directories, with or without its root
InitEmpty == InitCache({}, {})

\* the job whose workspace the loop's reaper meets
LoopJob == <<"a2", "b2", "c2", "d2", "e2">>

\* a job whose Fetcher fails before it has written a file
FailingWorker(j) ==
    \/ perform_download_job_start(j)
    \/ download_manga_exit(j, "nonzero")
    \/ perform_download_job_raise(j)

NextLoop ==
    \/ run_cleanup_loop_cleanup_cache
    \/ run_cleanup_loop_sweep
    \/ \E form \in DirForms : get_active_job_files_raises(form)
    \/ run_cleanup_loop_cache_returned
    \/ run_cleanup_loop_cleanup_temp_dirs
    \/ run_cleanup_loop_temp_dirs_returned
    \/ run_cleanup_loop_sleep
    \/ enqueue_download(LoopJob, "url1")
    \/ FailingWorker(LoopJob)
    \/ \E e \in TempEntries : CreateTempEntry(e)

\* the loop on a cache without files: what its passes remove is not at issue
SpecLoop == InitEmpty /\ [][NextLoop]_vars

\* the cleanup process from its start in any environment: the import of
\* app.config, then the loop, on a cache with files that age
InitConfig == InitWith(InitialFiles, {}, {UnloadedConfig(env) : env \in EnvValues})

NextConfig ==
    \/ import_config
    \/ run_cleanup_loop_cleanup_cache
    \/ run_cleanup_loop_sweep
    \/ run_cleanup_loop_cache_returned
    \/ run_cleanup_loop_cleanup_temp_dirs
    \/ run_cleanup_loop_temp_dirs_returned
    \/ run_cleanup_loop_sleep
    \/ Tick

SpecConfig == InitConfig /\ [][NextConfig]_vars

\* sweeps of a cache that stays empty, with jobs waiting in the queue
NextEmpty == Sweep \/ Tick \/ Submit \/ Cancel

SpecEmpty == InitEmpty /\ [][NextEmpty]_vars

\* the gateway, the workers and Redis expiry
Request == \E j \in JobIds, data \in RequestBodies : api_download(j, data)

\* subprocess.run raises TimeoutExpired (run_mangadex_dl lines 60-66)
FetcherTimeout(j) == download_manga_exit(j, "timeout")

Expire == \E j \in JobIds : expire_job(j)

\* a pool of one worker (Config.RQ_WORKER_COUNT = 1): it takes the next job
\* when the one before has ended
OtherWorkersIdle(j) == \A k \in JobIds \ {j} : run[k].pc \in {"idle", "returned"}

NextApi ==
    \/ Request
    \/ \E j \in JobIds : OtherWorkersIdle(j) /\ Worker(j)
    \/ \E j \in JobIds : FetcherTimeout(j)
    \/ Cancel
    \/ Expire

SpecApi == Init /\ [][NextApi]_vars

\* the job whose progress is followed
LiveJob == <<"a1", "b1", "c1", "d1", "e1">>

NextLive ==
    \/ enqueue_download(LiveJob, "url1")
    \/ Worker(LiveJob)
    \/ FetcherTimeout(LiveJob)
    \/ \E fetch_ok \in BOOLEAN : cancel_job(LiveJob, fetch_ok)

\* the steps a worker process takes by itself once the Fetcher has ended
WorkerProgress(j) ==
    \/ store_metadata_for_result_call(j)
    \/ store_manga_metadata_hget(j)
    \/ store_manga_metadata_hset(j)
    \/ perform_download_job_return(j)
    \/ perform_download_job_raise(j)

\* a worker that does not crash goes on with the job it has; the Fetcher may
\* never end by itself, but subprocess.run(timeout=timeout) ends it then
SpecLive ==
    /\ Init /\ [][NextLive]_vars
    /\ WF_vars(WorkerProgress(LiveJob))
    /\ WF_vars(FetcherTimeout(LiveJob))

----------------------------------------------------------------------------
(* C1: two concurrent store_manga_metadata calls for the same series with  *)
(* disjoint, non-empty artifact lists leave, once both have returned, a    *)
(* record that lists the names of both calls.  (Sequential calls only add  *)
(* names, so the formula can fail only through an interleaving of the      *)
(* hget and hset steps.)                                                   *)
C1_ConcurrentMergeKeepsBoth ==
    \A c1, c2 \in JobIds :
        ( /\ c1 # c2
          /\ call[c1].pc = "done" /\ call[c2].pc = "done"
          /\ call[c1].series = call[c2].series
          /\ call[c1].files # <<>> /\ call[c2].files # <<>>
          /\ Range(call[c1].files) \cap Range(call[c2].files) = {} )
        => (Range(call[c1].files) \cup Range(call[c2].files))
               \subseteq StoredNames(call[c1].series)

----------------------------------------------------------------------------
\* a file that exists before the step and not after it
Vanishes(p) == fs[p] # Absent /\ fs'[p] = Absent

\* the step that is the first pass of cleanup_cache
FilePass == sweep.pc = "files" /\ sweep'.pc = "dirs"

AfterFilePass == sweep.pc \in {"dirs", "meta", "done"} /\ sweep.ttl # 0 /\ <<>> \in dirs

\* the age cleanup_cache computes for p: current_time - st_mtime
AgeInPass(p) == sweep.current_time - fs[p]

InActiveSet(p) == PathStr(sweep.form, p) \in sweep.active_files \/ Resolve(p) \in sweep.active_files

\* files named by some record of the metadata store
Recorded(p) ==
    \E s \in DOMAIN store :
        /\ store[s].cache_path[2] = Parent(p)
        /\ Basename(p) \in Range(json_loads(store[s].files))

(* C2: the files of every started job are protected from the sweep: a file *)
(* the Fetcher of a started job has put into the cache is still there for  *)
(* as long as the job is started, whatever its age.                        *)
C2_StartedJobFilesSurvive ==
    \A j \in JobIds :
        jobs[j].status = "started" => \A p \in run[j].written : Present(p)

(* C3: no step removes a file whose path, as enumerated under the cache    *)
(* root given to cleanup_cache or as resolved, is in the active-reference  *)
(* set of the pass in progress.                                            *)
C3_ActiveFilesNeverDeleted ==
    [][\A p \in CachePaths :
          Vanishes(p) =>
              /\ PathStr(sweep.form, p) \notin sweep.active_files
              /\ Resolve(p) \notin sweep.active_files]_vars

\* an expired file in the active set is still there after a first pass that
\* removed another file
C3_Witness ==
    /\ AfterFilePass
    /\ sweep.deleted # {}
    /\ \E p \in CachePaths :
          /\ Present(p) /\ AgeInPass(p) > sweep.ttl
          /\ Resolve(p) \in sweep.active_files
          /\ PathStr(sweep.form, p) \notin sweep.active_files

\* the files of a job: those its Fetcher has written and those in its result
JobOwned(j) ==
    run[j].written \cup
    (IF jobs[j].result = NoResult THEN {} ELSE {fp[2] : fp \in Range(jobs[j].result[2])})

(* C4: a pass deletes no file of a job whose state could not be read when  *)
(* the active-reference set of that pass was computed.                     *)
C4_UnreadableJobFilesKept ==
    \A j \in sweep.unreadable : sweep.deleted \cap JobOwned(j) = {}

Terminal == {"finished", "failed", "canceled"}

(* C5: once a job is finished, failed or cancelled, its registry entry     *)
(* (state, result, error) is the same after every step, cancel_job         *)
(* included.                                                               *)
C5_TerminalStateIsFinal ==
    [][\A j \in JobIds : jobs[j].status \in Terminal => jobs'[j] = jobs[j]]_vars

\* the jobs whose id a directory name ends with, after the "job-<tag>-" prefix
Owners(e) == {j \in JobIds : e.name = WorkspaceName(j)}

\* the "job-...-<id>" convention: a directory whose name starts with "job-" and
\* has at least three hyphen-separated parts
MatchesConvention(e) == e.dir /\ e.name[1] = "job" /\ Len(e.name) >= 3

\* a step that is a cleanup_temp_dirs pass
ReapPass == reap'.pass # reap.pass

(* C6: no step removes an entry of the temp directory that does not match  *)
(* the naming convention, nor the workspace directory of a job that is     *)
(* queued or started.                                                      *)
C6_ReaperSparesForeignAndActive ==
    [][\A e \in temp :
          e \notin temp' =>
              /\ MatchesConvention(e)
              /\ \A j \in Owners(e) : jobs[j].status \notin {"queued", "started"}]_vars

\* the owning job of an entry is in a terminal state or not in the registry
OwnerGone(e) == \A j \in Owners(e) : jobs[j].status \in Terminal \cup {"none"}

C8_ExpiredUnreferencedDeleted ==
    [][FilePass =>
          \A p \in CachePaths :
              ( /\ Present(p) /\ Basename(p) \in CbzNames
                /\ sweep.ttl > 0
                /\ AgeInPass(p) > sweep.ttl
                /\ ~InActiveSet(p)
                /\ p \notin sweep'.failed )
              => fs'[p] = Absent]_vars

\* a pass has removed a file of a series directory and a top-level file
C8_Witness ==
    /\ sweep.pc = "dirs"
    /\ \E p, q \in sweep.deleted : Len(p) = 2 /\ Len(q) = 1 /\ ~Present(p) /\ ~Present(q)

(* C9: a file is removed only by the first pass of cleanup_cache and only  *)
(* if its age strictly exceeds ttl and it is not in the active-reference   *)
(* set; in particular a file with age <= ttl that no metadata record lists *)
(* is not removed.                                                         *)
C9_OnlyExpiredUnreferencedDeleted ==
    [][\A p \in CachePaths :
          Vanishes(p) =>
              /\ FilePass
              /\ AgeInPass(p) > sweep.ttl
              /\ ~InActiveSet(p)]_vars

\* after a pass that removed a recorded file, a file whose age equals ttl and
\* that no record lists is still there
C9_Witness ==
    /\ AfterFilePass
    /\ \E p \in CachePaths : Present(p) /\ AgeInPass(p) = sweep.ttl /\ ~Recorded(p)
    /\ \E q \in sweep.deleted : Recorded(q)

(* C10: cleanup_cache with ttl == 0 returns 0, and no file is removed      *)
(* while the last call of cleanup_cache is one with ttl == 0.              *)
C10_TtlZeroDeletesNothing ==
    /\ [](sweep.ttl = 0 => sweep.removed_count = 0 /\ sweep.deleted = {})
    /\ [][\A p \in CachePaths : Vanishes(p) => sweep.ttl # 0]_vars

\* cleanup_cache(ttl = 0) has returned and a file of positive age is there
C10_Witness ==
    /\ sweep.pc = "done" /\ sweep.ttl = 0 /\ <<>> \in dirs
    /\ \E p \in CachePaths : Present(p) /\ now - fs[p] > 0

(* C11 as stated: when cleanup_cache is called right after a call with the *)
(* same cache root and ttl has returned, and nothing was written to the    *)
(* cache since, its first pass removes no file and it returns 0.           *)
C11_Original ==
    [][(FilePass /\ sweep.prev.valid)
          => /\ \A p \in CachePaths : ~Vanishes(p)
             /\ sweep'.removed_count = 0]_vars

\* between the previous call and this one no file has become removable: the
\* previous call failed on no file, no file has passed ttl between the two
\* clock readings, and no file has left the active-reference set
NothingNewToRemove ==
    /\ sweep.prev.failed = {}
    /\ \A p \in CbzFiles :
          /\ Expired(sweep.current_time - fs[p], sweep.ttl)
                => Expired(sweep.prev.current_time - fs[p], sweep.ttl)
          /\ Referenced(sweep.form, p, sweep.prev.active_files)
                => Referenced(sweep.form, p, sweep.active_files)

(* C11, amended: when cleanup_cache is called right after a call with the  *)
(* same cache root and ttl has returned, nothing was written to the cache  *)
(* since, the earlier call failed on no file, no file's age has passed ttl *)
(* between the two clock readings and no file has left the                 *)
(* active-reference set, its first pass removes no file and counts 0.      *)
C11_SweepIdempotent ==
    [][(FilePass /\ sweep.prev.valid /\ NothingNewToRemove)
          => /\ \A p \in CachePaths : ~Vanishes(p)
             /\ sweep'.removed_count = 0]_vars

\* the call after one that removed a file has left a file of the same age
\* class in place and removed nothing
C11_Witness ==
    /\ sweep.pc = "dirs" /\ sweep.ttl > 0
    /\ sweep.prev.valid /\ sweep.prev.removed_count > 0
    /\ NothingNewToRemove
    /\ sweep.removed_count = 0
    /\ \E p \in CachePaths : Present(p)

\* the step that is the second pass of cleanup_cache
DirPass == sweep.pc = "dirs" /\ sweep'.pc = "meta"

\* the files at any depth beneath a directory
Beneath(d) == {p \in CachePaths : Present(p) /\ Len(p) > Len(d) /\ SubSeq(p, 1, Len(d)) = d}

\* d is e or a directory above e
Above(d, e) == Len(d) <= Len(e) /\ SubSeq(e, 1, Len(d)) = d

(* C12 as stated: the second pass of cleanup_cache removes every           *)
(* subdirectory of the cache root that has no file beneath it (so also one *)
(* that holds only directories without files) and keeps every directory    *)
(* that has a file beneath it.                                             *)
C12_Original ==
    [][DirPass => \A d \in dirs \ {<<>>} : (d \in dirs' <=> Beneath(d) # {})]_vars

(* C12, amended: the second pass of cleanup_cache keeps every directory    *)
(* that has a file beneath it, whether or not the file is an archive or    *)
(* has a record, and removes every subdirectory of the cache root that has *)
(* no file beneath it, unless rmdir raised for it or for a directory       *)
(* beneath it.                                                             *)
C12_EmptyDirsPruned ==
    [][DirPass =>
          \A d \in dirs \ {<<>>} :
              /\ Beneath(d) # {} => d \in dirs'
              /\ (Beneath(d) = {} /\ ~\E e \in sweep'.rmdir_failed : Above(d, e))
                    => d \notin dirs']_vars

\* a pass has removed directories and has kept the directory of a file it
\* deleted, because a file that is not an archive is left in it
C12_Witness ==
    /\ sweep.pc = "meta"
    /\ sweep.pruned # {} /\ sweep.pruned \cap dirs = {}
    /\ \E e \in dirs \ {<<>>} :
          /\ \E p \in sweep.deleted : Parent(p) = e
          /\ \E q \in Beneath(e) : Basename(q) \notin CbzNames

\* the step in which cleanup_stale_metadata runs; it has returned a count
\* unless it raised
MetaPass == sweep.pc = "meta" /\ sweep'.pc = "done"

Reconciled == sweep'.stale_deleted # NoCount

\* the name f listed in the record of s is a file under the record's cache_path
Survives(s, f) ==
    LET p == store[s].cache_path[2] \o <<f>>
    IN  p \in CachePaths /\ Present(p)

ListedNames(s) == Range(json_loads(store[s].files))

(* C13: cleanup_stale_metadata deletes the record of a series if and only  *)
(* if none of the names the record lists is a file under the record's      *)
(* cache_path, and the count it returns is the number of records deleted.  *)
C13_ReconcileDeletesExactlyStale ==
    [][(MetaPass /\ Reconciled) =>
          /\ \A s \in DOMAIN store :
                s \notin DOMAIN store' <=> ~\E f \in ListedNames(s) : Survives(s, f)
          /\ sweep'.stale_deleted = Cardinality(DOMAIN store \ DOMAIN store')]_vars

\* cleanup_stale_metadata has deleted the record of a series without files
\* and returned 1
C13_Witness ==
    /\ sweep.pc = "done" /\ sweep.stale_deleted = 1
    /\ store = <<>>
    /\ \A p \in CachePaths : Len(p) = 2 => ~Present(p)

(* C14: cleanup_stale_metadata leaves the record of every series that has  *)
(* at least one listed file left exactly as it was: the listed names, also *)
(* those of files that are gone, url, cache_path and download_date.        *)
C14_ReconcileKeepsSurvivorsUnchanged ==
    [][MetaPass =>
          \A s \in DOMAIN store :
              (\E f \in ListedNames(s) : Survives(s, f))
                  => s \in DOMAIN store' /\ store'[s] = store[s]]_vars

\* after cleanup_stale_metadata a record lists a file that is gone next to
\* one that is left
C14_Witness ==
    /\ sweep.pc = "done" /\ sweep.stale_deleted = 0
    /\ \E s \in DOMAIN store :
          /\ \E f \in ListedNames(s) : Survives(s, f)
          /\ \E f \in ListedNames(s) : ~Survives(s, f)

\* a step in which cleanup_cache returns
ReturnStep == sweep' # sweep /\ sweep'.pc = "done"

\* the files evicted in the pass whose directory has no file left
LastOfSeries == {p \in sweep.deleted : Len(p) = 2 /\ Beneath(Parent(p)) = {}}

RecordsAt(d) == {s \in DOMAIN store' : store'[s].cache_path[2] = d}

C16_FileErrorDoesNotAbortSweep ==
    [][(FilePass /\ sweep'.failed # {}) =>
          /\ \A p \in sweep'.failed : fs'[p] = fs[p] /\ Present(p)
          /\ \A p \in CbzFiles \ sweep'.failed :
                (AgeInPass(p) > sweep.ttl /\ ~InActiveSet(p)) => fs'[p] = Absent
          /\ sweep'.removed_count = Cardinality({p \in CachePaths : Vanishes(p)})
          /\ sweep'.pc = "dirs"]_vars

\* a pass that failed on one file has removed another and counted it
C16_Witness ==
    /\ sweep.pc = "dirs"
    /\ sweep.failed # {} /\ \A p \in sweep.failed : Present(p)
    /\ sweep.deleted # {} /\ \A p \in sweep.deleted : ~Present(p)
    /\ sweep.removed_count = Cardinality(sweep.deleted)

(* C17: an error on one directory does not end a cleanup_temp_dirs pass:   *)
(* the directory the error was raised for is still there, every other      *)
(* directory that matches the naming convention and whose owning job is    *)
(* terminal or not found is removed, and the count returned is the number  *)
(* of directories removed.                                                 *)
C17_DirErrorDoesNotAbortReaper ==
    [][(ReapPass /\ reap'.failed # {}) =>
          /\ reap'.failed \subseteq temp'
          /\ \A e \in temp \ reap'.failed :
                (MatchesConvention(e) /\ OwnerGone(e)) => e \notin temp'
          /\ reap'.removed_count = Cardinality(temp \ temp')]_vars

\* a pass that failed on one directory has removed another and counted it
C17_Witness ==
    /\ reap.failed # {} /\ reap.failed \subseteq temp
    /\ reap.deleted # {} /\ reap.deleted \cap temp = {}
    /\ reap.removed_count = Cardinality(reap.deleted)

\* the step in which perform_download_job returns for job j
JobReturns(j) == run[j].pc = "fetched" /\ run'[j].pc = "returned"

(* C18: when perform_download_job returns for a job whose download_manga   *)
(* call gave a non-empty list L, the job is finished, get_job_result gives *)
(* exactly L, and for every path of L the record of the series named by    *)
(* the path's parent directory lists the path's basename.                  *)
C18_FinishedJobIsRecorded ==
    [][\A j \in JobIds :
          (JobReturns(j) /\ run[j].result # <<>>) =>
              /\ jobs'[j].status = "finished"
              /\ get_job_result(j)' = ListResult(run[j].result)
              /\ \A fp \in Range(run[j].result) :
                    /\ SeriesDirName(fp) \in DOMAIN store'
                    /\ NameOf(fp) \in Range(json_loads(store'[SeriesDirName(fp)].files))]_vars

\* the step in which the store_manga_metadata call of c writes and returns
Writes(c) == call[c].pc = "hset" /\ call'[c].pc = "done"

(* C19: a store_manga_metadata call for a series that has a record, with   *)
(* no other call in progress, leaves a record whose names are the names    *)
(* stored before together with the names of its files argument.            *)
C19_SequentialMergeIsUnion ==
    [][\A c \in JobIds :
          (Writes(c) /\ call[c].series \in DOMAIN store) =>
              StoredNames(call[c].series)' =
                  StoredNames(call[c].series) \cup Range(call[c].files)]_vars

\* two calls, one after the other, with ch1.cbz and with ch2.cbz have left
\* a record that lists both
C19_Witness ==
    \E c1, c2 \in JobIds :
        /\ c1 # c2 /\ call[c1].pc = "done" /\ call[c2].pc = "done"
        /\ call[c1].files = <<"ch1.cbz">> /\ call[c2].files = <<"ch2.cbz">>
        /\ call[c1].series = call[c2].series
        /\ StoredNames(call[c1].series) = {"ch1.cbz", "ch2.cbz"}

(* C20: the list of names stored for a series never repeats a name, also   *)
(* after a first store_manga_metadata call whose files argument repeats    *)
(* one.                                                                    *)
C20_NoDuplicateNames ==
    \A s \in DOMAIN store :
        Cardinality(Range(json_loads(store[s].files))) = Len(json_loads(store[s].files))

----------------------------------------------------------------------------
\* the Fetcher of job j has ended without success: a non-zero return code, or
\* run_mangadex_dl raising
FetcherFailed(j) == run[j].outcome \notin {"", "ok"}

(* C21: when the Fetcher ends without success (non-zero return code) or    *)
(* raises (timeout), perform_download_job raises with the Fetcher's        *)
(* diagnostic, the worker's next step for the job records state failed     *)
(* with that diagnostic as the error, and a job whose execution has ended  *)
(* is never executed again: the Fetcher is not invoked a second time.      *)
C21_FetcherFailureFailsJobOnce ==
    [][\A j \in JobIds :
          /\ FetcherFailed(j)' => (run'[j].pc = "raised" /\ run'[j].exc = run'[j].outcome)
          /\ (FetcherFailed(j) /\ run'[j] # run[j]) =>
                 /\ run'[j].pc = "returned"
                 /\ jobs'[j].status = "failed"
                 /\ jobs'[j].exc_info = run[j].outcome
          /\ run[j].pc = "returned" => run'[j].pc = "returned"]_vars

C21_Witness ==
    \E j \in JobIds :
        /\ jobs[j].status = "failed" /\ jobs[j].exc_info = "timeout"
        /\ run[j].pc = "returned"
        /\ \E k \in JobIds : jobs[k].status = "failed" /\ jobs[k].exc_info = "nonzero"

----------------------------------------------------------------------------
\* an id of the right form that no job was ever given
UnknownId == <<"a9", "b9", "c9", "d9", "e9">>

QueryIds == JobIds \cup {UnknownId}

\* the job hash of job_id is in the registry
Registered(job_id) == job_id \in JobIds /\ jobs[job_id].status # "none"

----------------------------------------------------------------------------
\* the entry of job j has expired: the job has run and its hash is gone
EntryExpired(j) == jobs[j].status = "none" /\ run[j].pc = "returned"

(* C23: in every state after the registry entry of a job has expired,      *)
(* get_job_status and get_job_result give None for its id, whether or not  *)
(* Redis answers.                                                          *)
C23_ExpiredJobIsNotFound ==
    \A j \in JobIds :
        EntryExpired(j) =>
            /\ \A fetch_ok \in BOOLEAN : get_job_status(j, fetch_ok) = NoStatus
            /\ get_job_result(j) = NoResult

C23_Witness ==
    \E j, k \in JobIds :
        /\ EntryExpired(j) /\ get_job_status(j, TRUE) = NoStatus
        /\ jobs[k].status = "finished" /\ get_job_status(k, TRUE) = [status |-> "finished"]

----------------------------------------------------------------------------
(* C24: get_job_status gives None only for an id without an entry in the   *)
(* registry, and for a failed job it gives state failed with the error,    *)
(* also when the lookup of the entry raises.                               *)
C24_NotFoundOnlyWithoutEntry ==
    \A j \in JobIds, fetch_ok \in BOOLEAN :
        /\ get_job_status(j, fetch_ok) = NoStatus => ~Registered(j)
        /\ jobs[j].status = "failed" =>
               get_job_status(j, fetch_ok) = [status |-> "failed", error |-> jobs[j].exc_info]

----------------------------------------------------------------------------
\* job j was cancelled while it was queued: no worker has ever taken it
CancelledWhileQueued(j) == jobs[j].status = "canceled" /\ run[j].pc = "idle"

(* C25: a job that cancel_job has cancelled while it was queued is never   *)
(* taken by a worker: it does not become started and perform_download_job  *)
(* is not entered for it.                                                  *)
C25_CancelledQueuedJobNeverStarts ==
    [][\A j \in JobIds :
          CancelledWhileQueued(j) => (jobs'[j].status # "started" /\ run'[j].pc = "idle")]_vars

C25_Witness ==
    \E j, k \in JobIds :
        /\ CancelledWhileQueued(j)
        /\ queue = <<>>
        /\ jobs[k].status = "finished"

----------------------------------------------------------------------------
\* a step that creates the job hash of j
Created(j) == jobs[j].status = "none" /\ jobs'[j].status # "none"

(* C27: a request that api_download answers with 400 (no JSON body, no     *)
(* url, or a url is_valid_mangadex_url refuses) leaves the registry as it  *)
(* was, and every job that is created has a url the validator accepts and  *)
(* is answered with 200 and its id.                                        *)
C27_RejectedRequestCreatesNoJob ==
    [][/\ (http'.code = 400 /\ http' # http) => UNCHANGED <<jobs, queue>>
       /\ \A j \in JobIds :
             Created(j) => /\ is_valid_mangadex_url(jobs'[j].url)
                           /\ http' = [code |-> 200, body |-> "", task_id |-> j]]_vars

C27_Witness ==
    /\ http.code = 400 /\ http.body = "Invalid MangaDex URL"
    /\ \E j \in JobIds : jobs[j].status = "queued"
    /\ \E j \in JobIds : jobs[j].status = "none" /\ run[j].pc = "idle"

----------------------------------------------------------------------------
(* C26: with a worker that does not crash, a job that is started reaches   *)
(* a terminal state (finished, failed or canceled), and a job whose        *)
(* Fetcher ran into the timeout becomes failed.                            *)
C26_StartedJobEnds ==
    /\ (jobs[LiveJob].status = "started") ~> (jobs[LiveJob].status \in Terminal)
    /\ (run[LiveJob].outcome = "timeout") ~> (jobs[LiveJob].status = "failed")

C26_Witness ==
    /\ jobs[LiveJob].status = "failed" /\ jobs[LiveJob].exc_info = "timeout"
    /\ run[LiveJob].pc = "returned"

----------------------------------------------------------------------------
(* C28: list_cached_mangas returns exactly one entry for every series      *)
(* record of the store and no other entry, each with the fields of its     *)
(* record, and the entries are in the order of their names compared        *)
(* without regard to case.                                                 *)
C28_ListIsOneEntryPerRecordInOrder ==
    LET r == list_cached_mangas
    IN  /\ Len(r) = Cardinality(DOMAIN store)
        /\ \A s \in DOMAIN store :
              \E i \in 1..Len(r) :
                  /\ r[i].name = store[s].name
                  /\ r[i].url = store[s].url
                  /\ r[i].cache_path = store[s].cache_path
                  /\ r[i].files = json_loads(store[s].files)
        /\ \A i, j \in 1..Len(r) : i < j => ~StrLess(lower(r[j].name), lower(r[i].name))

C28_Witness ==
    /\ DOMAIN store = ListSeries
    /\ list_cached_mangas[1].name = "alpha"
    /\ list_cached_mangas[2].name = "SeriesA"
    /\ list_cached_mangas[3].name = "Zeta"

----------------------------------------------------------------------------
\* the cache root has no file and no directory in it, or does not exist
EmptyRoot == (\A p \in CachePaths : fs[p] = Absent) /\ dirs \subseteq {<<>>}

----------------------------------------------------------------------------
(* C30: a sweep pass of run_cleanup_loop that raises stops neither the     *)
(* reaper pass of its period nor the later periods: after it the loop is   *)
(* at its cleanup_temp_dirs call, at its sleep or at the next period's     *)
(* cleanup_cache call.                                                     *)
C30_SweepErrorDoesNotStopLoop ==
    sweep.pc = "raised" => loop.pc \in {"cleanup_temp_dirs", "sleep", "cleanup_cache"}

----------------------------------------------------------------------------
(* C31: the list download_manga returns for a job holds only files that    *)
(* the Fetcher run of that job has created: no file that was there at the  *)
(* before-snapshot, and no file another job has created between the two    *)
(* snapshots.                                                              *)
C31_ResultIsOwnNewFiles ==
    \A j \in JobIds :
        run[j].pc = "fetched" =>
            \A fp \in Range(run[j].result) :
                /\ fp \notin run[j].before
                /\ fp[2] \in run[j].written

----------------------------------------------------------------------------
(* C32: in every store_manga_metadata call the worker makes for a series   *)
(* of a job result, cache_path is the directory that holds the files of    *)
(* the result listed for that series, also when the result has paths in    *)
(* several series directories with equal basenames.                        *)
C32_CachePathIsDirectoryOfFiles ==
    \A j \in JobIds :
        (run[j].pc = "fetched" /\ call[j].pc \in {"hget", "hset"}) =>
            \A fp \in Range(run[j].result) :
                SeriesDirName(fp) = call[j].series => ParentStr(fp) = call[j].cache_path

----------------------------------------------------------------------------
(* C33: no step of cleanup_stale_metadata, run while a worker writes,      *)
(* deletes a record that lists, at that step, a file that exists on disk.  *)
C33_ReconcileNeverDeletesLiveRecord ==
    [][\A s \in DOMAIN store :
          s \notin DOMAIN store' => ~any_file_exists(store[s])]_vars

----------------------------------------------------------------------------
BecomesFinished(j) == jobs[j].status # "finished" /\ jobs'[j].status = "finished"

----------------------------------------------------------------------------
\* the ways the Fetcher step of download_manga fails
FetcherFailures == {"nonzero", "timeout", "not_found",
                    "Invalid MangaDex URL", "Directory does not exist"}

FetcherStepFailed(j) ==
    \/ run[j].pc = "raised" /\ run[j].exc \in FetcherFailures
    \/ jobs[j].status = "failed" /\ jobs[j].exc_info \in FetcherFailures

HSetBy(j) == call[j].pc = "hset" /\ call'[j].pc = "done"

(* C35: a job whose Fetcher step failed performs no write to the store: a  *)
(* job writes only after its Fetcher ended with code 0, a failed job is    *)
(* never inside store_manga_metadata, and every change of a record is the  *)
(* hset of some job.                                                        *)
C35_FailedFetcherWritesNothing ==
    [][/\ \A j \in JobIds :
             /\ HSetBy(j) => run[j].outcome = "ok"
             /\ FetcherStepFailed(j) => (call[j].pc = "idle" /\ call'[j].pc = "idle")
       /\ store' # store => \E k \in JobIds : HSetBy(k)]_vars

C35_Witness ==
    \E j \in JobIds :
        /\ run[j].pc = "raised"
        /\ run[j].exc \in FetcherFailures
        /\ run[j].written # {}
        /\ Title(jobs[j].url) \notin DOMAIN store

----------------------------------------------------------------------------
(* C36: no step of cleanup_cache removes the cache root, and none deletes  *)
(* or touches a file whose name does not end in .cbz, however old it is.   *)
C36_RootAndOtherFilesKept ==
    [][/\ <<>> \in dirs => <<>> \in dirs'
       /\ \A p \in CachePaths :
             (Present(p) /\ Basename(p) \notin CbzNames) => fs'[p] = fs[p]]_vars

\* a pass has removed an archive and a directory, and an expired file that is
\* not an archive is still there, under the root
C36_Witness ==
    /\ sweep.pc = "meta"
    /\ sweep.deleted # {}
    /\ sweep.pruned # {}
    /\ <<>> \in dirs
    /\ \E p \in CachePaths :
          /\ Present(p)
          /\ Basename(p) \notin CbzNames
          /\ Expired(sweep.current_time - fs[p], sweep.ttl)

----------------------------------------------------------------------------
(* C37: in an environment with CACHE_TTL_SECONDS=0 the import of the       *)
(* configuration does not raise and gives a TTL of 0, and no pass of the   *)
(* loop's cleanup_cache removes a file.                                     *)
C37_ZeroTtlAcceptedAndNoOp ==
    (config.env = SetEnv("0") /\ config.pc # "unloaded") =>
        /\ config.pc = "loaded"
        /\ CACHE_TTL_SECONDS = 0
        /\ sweep.removed_count = 0
        /\ sweep.deleted = {}
====
